---- MODULE Spec2Model ----
(***************************************************************************)
(* Model of the HPU integration code:                                      *)
(*   - DataLayoutPlugin / permute_params (Convolution_hpu_datamodule.py)   *)
(*   - HPUStrategy (pytorch_lightning/strategies/hpu.py)                   *)
(*   - HPUParallelStrategy (lightning/fabric/strategies/parallel_hpu.py)   *)
(*                                                                         *)
(* A tensor is modelled the way torch represents it: a shape, a stride per *)
(* axis and a storage; permute() builds a view that reorders shape and     *)
(* stride and shares the storage.  Axis numbers are 0-based as in the      *)
(* source; TLA+ sequences are 1-based, hence the "+ 1" in the accessors.   *)
(***************************************************************************)
EXTENDS Integers, Sequences, FiniteSets, TLC

\* ------------------------------------------------------------------ bounds
MaxExtent == 4
MaxOtherExtent == 2
MaxRank == 5
MaxOps == 2
MaxChildren == 2
MaxLayerExtent == 2
MaxCheckpoints == 2
MaxOptimizers == 3
MaxDeviceIndex == 1
MaxSteps == 2
MaxLocalRank == 1
MaxCalls == 3

\* ------------------------------------------------------------- the state
VARIABLES
    model,      \* permute_params: the model's named_parameters(), a sequence of tensors
    orig,       \* the parameters as they were before any permutation
    applied,    \* the to_filters_last flags of the permute_params calls made so far
    children,   \* DataLayoutPlugin: model.children(), the kinds of the direct child layers
    hpu,        \* _HPU_AVAILABLE, the accelerator probe
    pc,         \* position of the example script
    checkpoints, \* the parameters as written by each checkpoint save, oldest first
    configured, \* HPUStrategy: the optimizers the superclass setup will configure
    optimizers, \* self.optimizers
    raised,     \* the exception that ended setup, or "none"
    device,     \* self.device: an int index or a torch.device
    modelDevice, \* the device the model is on
    spc,        \* position of the trainer driving the HPUStrategy
    steps,      \* training steps executed so far
    environ,    \* HPUParallelStrategy: os.environ, the variables that are set
    local_rank, \* self.local_rank
    backend,    \* self._process_group_backend
    torchLE,    \* _TORCH_LESSER_EQUAL_1_13_1
    phase,      \* "set" from a setup_environment call on, "torn" from a teardown call on
    lastCall,   \* the last strategy call: what it did, in order, and how it ended
    ncalls      \* strategy calls made so far

permVars == <<model, orig, applied>>
pluginVars == <<children, hpu, pc, checkpoints>>
hpuVars == <<configured, optimizers, raised, device, modelDevice, spc, steps>>
parVars == <<environ, local_rank, backend, torchLE, phase, lastCall, ncalls>>
vars == <<model, orig, applied, children, hpu, pc, checkpoints,
          configured, optimizers, raised, device, modelDevice, spc, steps,
          environ, local_rank, backend, torchLE, phase, lastCall, ncalls>>

\* ---------------------------------------------------------------- tensors
RECURSIVE Prod(_, _)
Prod(s, i) == IF i > Len(s) THEN 1 ELSE s[i] * Prod(s, i + 1)

\* number of elements of a shape
Numel(shape) == Prod(shape, 1)

\* row-major strides of a freshly allocated tensor
ContiguousStride(shape) == [i \in 1..Len(shape) |-> Prod(shape, i + 1)]

\* a freshly allocated parameter: contiguous, element o of the storage holds
\* the value o (all values distinct)
NewTensor(shape) ==
    [shape |-> shape,
     stride |-> ContiguousStride(shape),
     storage |-> [o \in 0..(Numel(shape) - 1) |-> o]]

ndim(t) == Len(t.shape)

\* Tensor.permute(dims): a view with reordered shape and stride, same storage
permute(t, dims) ==
    [shape |-> [i \in 1..Len(dims) |-> t.shape[dims[i] + 1]],
     stride |-> [i \in 1..Len(dims) |-> t.stride[dims[i] + 1]],
     storage |-> t.storage]

\* the index tuples of the first n axes of a shape (0-based indices)
RECURSIVE IndexTuples(_, _)
IndexTuples(shape, n) ==
    IF n = 0 THEN {<<>>}
    ELSE {Append(pre, j) : pre \in IndexTuples(shape, n - 1), j \in 0..(shape[n] - 1)}

\* the index tuples of a tensor
Indices(t) == IndexTuples(t.shape, ndim(t))

RECURSIVE Dot(_, _, _)
Dot(a, b, i) == IF i > Len(a) THEN 0 ELSE a[i] * b[i] + Dot(a, b, i + 1)

\* the element of t at index tuple idx
At(t, idx) == t.storage[Dot(idx, t.stride, 1)]

\* -------------------------------------------------------- permute_params
FiltersLastDims_Swapped == <<3, 2, 1, 0>>
FiltersLastDims_Rotated == <<1, 2, 3, 0>>
FiltersLastDims == <<2, 3, 1, 0>>
FiltersFirstDims == <<3, 2, 0, 1>>

\* variants of the loop body used to test the properties below
PermuteParam_SameDims(param, to_filters_last) ==
    IF ndim(param) = 4 THEN permute(param, FiltersLastDims) ELSE param

PermuteParam_RankAtLeast4(param, to_filters_last) ==
    IF ndim(param) >= 4
    THEN IF to_filters_last
         THEN permute(param, FiltersLastDims)
         ELSE permute(param, FiltersFirstDims)
    ELSE param

\* the body of the loop of permute_params for one parameter
PermuteParam(param, to_filters_last) ==
    IF ndim(param) = 4
    THEN IF to_filters_last
         THEN permute(param, FiltersLastDims)
         ELSE permute(param, FiltersFirstDims)
    ELSE param

\* permute_params(model, to_filters_last): every named parameter in turn
permute_params(m, to_filters_last) ==
    [p \in 1..Len(m) |-> PermuteParam(m[p], to_filters_last)]

\* ------------------------------------------- specification of the transform
ExampleShape == <<16, 1, 3, 3>>

ExtentBound(r) == IF r = 4 THEN MaxExtent ELSE MaxOtherExtent

Shapes(r) ==
    [1..r -> 1..ExtentBound(r)] \cup (IF r = 4 THEN {ExampleShape} ELSE {})

\* a model of one weight, or of a weight and its bias (one extent per out channel)
PluginIdle ==
    /\ children = <<>>
    /\ hpu = FALSE
    /\ pc = "idle"
    /\ checkpoints = <<>>

HPUIdle ==
    /\ configured = <<>>
    /\ optimizers = <<>>
    /\ raised = "none"
    /\ device = [kind |-> "int", index |-> 0]
    /\ modelDevice = "cpu"
    /\ spc = "idle"
    /\ steps = 0

NoCall == [op |-> "none", log |-> <<>>, raised |-> FALSE, superOut |-> "None", result |-> "None"]

ParIdle ==
    /\ environ = <<>>
    /\ local_rank = 0
    /\ backend = "hccl"
    /\ torchLE = FALSE
    /\ phase = "idle"
    /\ lastCall = NoCall
    /\ ncalls = 0

PermInit ==
    /\ PluginIdle
    /\ HPUIdle
    /\ ParIdle
    /\ \E r \in 1..MaxRank : \E shape \in Shapes(r) : \E bias \in BOOLEAN :
          model = IF bias
                  THEN <<NewTensor(shape), NewTensor(<<shape[1]>>)>>
                  ELSE <<NewTensor(shape)>>
    /\ orig = model
    /\ applied = <<>>

PermuteToFiltersLast ==
    /\ Len(applied) < MaxOps
    /\ model' = permute_params(model, TRUE)
    /\ applied' = Append(applied, TRUE)
    /\ UNCHANGED <<orig, pluginVars, hpuVars, parVars>>

PermuteToFiltersFirst ==
    /\ Len(applied) < MaxOps
    /\ model' = permute_params(model, FALSE)
    /\ applied' = Append(applied, FALSE)
    /\ UNCHANGED <<orig, pluginVars, hpuVars, parVars>>

PermNext == PermuteToFiltersLast \/ PermuteToFiltersFirst

PermSpec == PermInit /\ [][PermNext]_vars

\* ------------------------------------------------------ DataLayoutPlugin
\* Kinds of direct child layer.  "Sequential" is a container whose own child
\* is a Conv2d: its rank-4 weight is among model.named_parameters(), which
\* recurses, but the Conv2d is not among model.children(), which does not.
LayerKinds == {"Conv1d", "Conv2d", "Conv3d", "Linear", "Sequential"}

\* the parameters a layer contributes to named_parameters(), for a layer built
\* from out channels k, in channels c and kernel extents r, s
LayerParams(kind, e) ==
    CASE kind = "Conv1d" -> <<NewTensor(<<e[1], e[2], e[3]>>)>>
      [] kind = "Conv2d" -> <<NewTensor(<<e[1], e[2], e[3], e[4]>>)>>
      [] kind = "Conv3d" -> <<NewTensor(<<e[1], e[2], e[3], e[4], e[4]>>)>>
      [] kind = "Linear" -> <<NewTensor(<<e[1], e[2]>>), NewTensor(<<e[1]>>)>>
      [] kind = "Sequential" -> <<NewTensor(<<e[1], e[2], e[3], e[4]>>)>>

RECURSIVE NamedParameters(_, _, _)
NamedParameters(layers, e, i) ==
    IF i > Len(layers) THEN <<>>
    ELSE LayerParams(layers[i], e) \o NamedParameters(layers, e, i + 1)

\* a permute_params call as the constructor's loop sees it: the model after
\* the call, and the call added to the log of calls
CallPermuteParams(st, to_filters_last) ==
    [m |-> permute_params(st.m, to_filters_last),
     calls |-> Append(st.calls, to_filters_last)]

\* variant of the loop body that ignores the probe
LayerStep_NoProbe(layer, available, st) ==
    IF layer = "Conv2d" THEN CallPermuteParams(st, TRUE) ELSE st

\* one iteration of "for layer in model.children()"
LayerStep(layer, available, st) ==
    IF layer = "Conv1d" THEN st
    ELSE IF layer = "Conv2d"
         THEN IF available THEN CallPermuteParams(st, TRUE) ELSE st
         ELSE st

\* the whole loop of DataLayoutPlugin.__init__ from child i on
RECURSIVE InitLoop(_, _, _, _)
InitLoop(layers, available, st, i) ==
    IF i > Len(layers) THEN st
    ELSE InitLoop(layers, available, LayerStep(layers[i], available, st), i + 1)

PluginInit ==
    /\ \E n \in 0..MaxChildren : children \in [1..n -> LayerKinds]
    /\ \E e \in [1..4 -> 1..MaxLayerExtent] : model = NamedParameters(children, e, 1)
    /\ hpu \in BOOLEAN
    /\ orig = model
    /\ applied = <<>>
    /\ pc = "new"
    /\ checkpoints = <<>>
    /\ HPUIdle
    /\ ParIdle

\* callbacks=[DataLayoutPlugin(model)]: the constructor, start to end
DataLayoutPlugin__init__ ==
    /\ pc = "new"
    /\ LET done == InitLoop(children, hpu, [m |-> model, calls |-> <<>>], 1)
       IN  /\ model' = done.m
           /\ applied' = done.calls
    /\ pc' = "constructed"
    /\ UNCHANGED <<orig, children, hpu, checkpoints, hpuVars, parVars>>

\* trainer.fit(...) starts
FitStart ==
    /\ pc = "constructed"
    /\ pc' = "fitting"
    /\ UNCHANGED <<model, orig, applied, children, hpu, checkpoints, hpuVars, parVars>>

\* a checkpoint write during fit: the parameters are saved as they are; the
\* callback defines no save hook and permute_params is local to __init__
SaveCheckpoint ==
    /\ pc = "fitting"
    /\ Len(checkpoints) < MaxCheckpoints
    /\ checkpoints' = Append(checkpoints, model)
    /\ UNCHANGED <<model, orig, applied, children, hpu, pc, hpuVars, parVars>>

\* trainer.fit(...) returns
FitEnd ==
    /\ pc = "fitting"
    /\ pc' = "fitted"
    /\ UNCHANGED <<model, orig, applied, children, hpu, checkpoints, hpuVars, parVars>>

\* trainer.test(model, val_loader)
Test ==
    /\ pc = "fitted"
    /\ pc' = "tested"
    /\ UNCHANGED <<model, orig, applied, children, hpu, checkpoints, hpuVars, parVars>>

\* trainer.validate(model, dataloaders=val_loader)
Validate ==
    /\ pc = "tested"
    /\ pc' = "validated"
    /\ UNCHANGED <<model, orig, applied, children, hpu, checkpoints, hpuVars, parVars>>

PluginNext ==
    \/ DataLayoutPlugin__init__
    \/ FitStart
    \/ SaveCheckpoint
    \/ FitEnd
    \/ Test
    \/ Validate

PluginSpec == PluginInit /\ [][PluginNext]_vars

\* ----------------------------------------------------------- HPUStrategy
OptimizerKinds == {"Adam", "SGD"}

\* torch.device("hpu"), the root device set by __init__
RootDevice == "hpu"

\* self.device is an int index or a torch.device
IntDevice(index) == [kind |-> "int", index |-> index]

\* torch.device(index)
TorchDevice(index) == [kind |-> "torch.device", index |-> index]

\* variant of setup_optimizers with the limit off by one
HPUStrategy_setup_optimizers_OffByOne(before, produced, superOk) ==
    IF ~superOk
    THEN [optimizers |-> before, raised |-> "SuperError"]
    ELSE IF Len(produced) > 2
         THEN [optimizers |-> produced, raised |-> "MisconfigurationException"]
         ELSE [optimizers |-> produced, raised |-> "none"]

\* setup_optimizers: the superclass configures the optimizers (or fails, and
\* its exception propagates); more than one optimizer is a misconfiguration
HPUStrategy_setup_optimizers(before, produced, superOk) ==
    IF ~superOk
    THEN [optimizers |-> before, raised |-> "SuperError"]
    ELSE IF Len(produced) > 1
         THEN [optimizers |-> produced, raised |-> "MisconfigurationException"]
         ELSE [optimizers |-> produced, raised |-> "none"]

HPUInit ==
    /\ PluginIdle
    /\ ParIdle
    /\ model = <<>>
    /\ orig = <<>>
    /\ applied = <<>>
    /\ \E n \in 0..MaxOptimizers : configured \in [1..n -> OptimizerKinds]
    /\ optimizers = <<>>
    /\ raised = "none"
    /\ \E i \in 0..MaxDeviceIndex : device \in {IntDevice(i), TorchDevice(i)}
    /\ modelDevice = "cpu"
    /\ spc = "new"
    /\ steps = 0

\* setup: model_to_device(), then the superclass setup, which sets up the
\* optimizers through setup_optimizers
HPUStrategy_setup ==
    /\ spc = "new"
    /\ modelDevice' = RootDevice
    /\ \E superOk \in BOOLEAN :
          LET r == HPUStrategy_setup_optimizers(optimizers, configured, superOk)
          IN  /\ optimizers' = r.optimizers
              /\ raised' = r.raised
              /\ spc' = IF r.raised = "none" THEN "ready" ELSE "failed"
    /\ UNCHANGED <<permVars, pluginVars, parVars, configured, device, steps>>

\* pre_dispatch: an int device becomes a torch.device
HPUStrategy_pre_dispatch ==
    /\ spc = "ready"
    /\ device' = IF device.kind = "int" THEN TorchDevice(device.index) ELSE device
    /\ spc' = "dispatched"
    /\ UNCHANGED <<permVars, pluginVars, parVars, configured, optimizers, raised, modelDevice, steps>>

\* a training step: the trainer runs them only once setup has returned
TrainingStep ==
    /\ spc = "dispatched"
    /\ steps < MaxSteps
    /\ steps' = steps + 1
    /\ UNCHANGED <<permVars, pluginVars, parVars, configured, optimizers, raised, device, modelDevice, spc>>

HPUNext ==
    \/ HPUStrategy_setup
    \/ HPUStrategy_pre_dispatch
    \/ TrainingStep

HPUSpec == HPUInit /\ [][HPUNext]_vars

\* --------------------------------------------------- HPUParallelStrategy
\* str(n) for a non-negative int
Digits == <<"0", "1", "2", "3", "4", "5", "6", "7", "8", "9">>

RECURSIVE str(_)
str(n) == IF n < 10 THEN Digits[n + 1] ELSE str(n \div 10) \o Digits[(n % 10) + 1]

\* os.environ[name] = value
SetEnv(env, name, value) ==
    [n \in (DOMAIN env) \cup {name} |-> IF n = name THEN value ELSE env[n]]

\* os.environ.pop(name, None)
PopEnv(env, name) == [n \in (DOMAIN env) \ {name} |-> env[n]]

Backends == {"hccl", "gloo"}
StepOutputs == {"None", "loss"}

\* the environment after setup_environment
EnvAfterSetup(env, rank, pgBackend) ==
    LET withId == SetEnv(env, "ID", str(rank))
    IN  IF pgBackend = "hccl"
        THEN SetEnv(withId, "HCCL_DISTRIBUTED_BACKEND", str(1))
        ELSE withId

\* the environment after teardown: the superclass teardown runs first, and the
\* two pops are reached only if it returns
EnvAfterTeardown(env, superOk) ==
    IF superOk
    THEN PopEnv(PopEnv(env, "ID"), "HCCL_DISTRIBUTED_BACKEND")
    ELSE env

\* variant that flushes before the superclass call
FlushedCall_FlushFirst(op, superOk, superResult, lesserEqual) ==
    [op |-> op,
     log |-> (IF lesserEqual THEN <<"mark_step">> ELSE <<>>) \o <<"super">>,
     raised |-> ~superOk,
     superOut |-> IF superOk THEN superResult ELSE "None",
     result |-> IF superOk /\ op = "optimizer_step" THEN superResult ELSE "None"]

\* backward and optimizer_step: the superclass call, then, if it returned and
\* torch is at most 1.13.1, htcore.mark_step(); optimizer_step returns the
\* superclass's output, backward returns None
FlushedCall(op, superOk, superResult, lesserEqual) ==
    [op |-> op,
     log |-> <<"super">> \o
             (IF superOk /\ lesserEqual THEN <<"mark_step">> ELSE <<>>),
     raised |-> ~superOk,
     superOut |-> IF superOk THEN superResult ELSE "None",
     result |-> IF superOk /\ op = "optimizer_step" THEN superResult ELSE "None"]

\* the strategy was constructed (so the HPU is available) in a process whose
\* environment holds neither variable
ParInit ==
    /\ PluginIdle
    /\ HPUIdle
    /\ model = <<>>
    /\ orig = <<>>
    /\ applied = <<>>
    /\ environ = <<>>
    /\ local_rank \in 0..MaxLocalRank
    /\ backend \in Backends
    /\ torchLE \in BOOLEAN
    /\ phase = "new"
    /\ lastCall = NoCall
    /\ ncalls = 0

HPUParallelStrategy_setup_environment ==
    /\ ncalls < MaxCalls
    /\ ncalls' = ncalls + 1
    /\ environ' = EnvAfterSetup(environ, local_rank, backend)
    /\ phase' = "set"
    /\ \E superOk \in BOOLEAN :
          lastCall' = [op |-> "setup_environment", log |-> <<"environ", "super">>,
                       raised |-> ~superOk, superOut |-> "None", result |-> "None"]
    /\ UNCHANGED <<permVars, pluginVars, hpuVars, local_rank, backend, torchLE>>

HPUParallelStrategy_teardown ==
    /\ ncalls < MaxCalls
    /\ ncalls' = ncalls + 1
    /\ phase' = "torn"
    /\ \E superOk \in BOOLEAN :
          /\ environ' = EnvAfterTeardown(environ, superOk)
          /\ lastCall' = [op |-> "teardown",
                           log |-> <<"super">> \o (IF superOk THEN <<"environ">> ELSE <<>>),
                           raised |-> ~superOk, superOut |-> "None", result |-> "None"]
    /\ UNCHANGED <<permVars, pluginVars, hpuVars, local_rank, backend, torchLE>>

HPUParallelStrategy_backward ==
    /\ ncalls < MaxCalls
    /\ ncalls' = ncalls + 1
    /\ \E superOk \in BOOLEAN :
          lastCall' = FlushedCall("backward", superOk, "None", torchLE)
    /\ UNCHANGED <<permVars, pluginVars, hpuVars, environ, local_rank, backend, torchLE, phase>>

HPUParallelStrategy_optimizer_step ==
    /\ ncalls < MaxCalls
    /\ ncalls' = ncalls + 1
    /\ \E superOk \in BOOLEAN : \E out \in StepOutputs :
          lastCall' = FlushedCall("optimizer_step", superOk, out, torchLE)
    /\ UNCHANGED <<permVars, pluginVars, hpuVars, environ, local_rank, backend, torchLE, phase>>

ParNext ==
    \/ HPUParallelStrategy_setup_environment
    \/ HPUParallelStrategy_teardown
    \/ HPUParallelStrategy_backward
    \/ HPUParallelStrategy_optimizer_step

ParSpec == ParInit /\ [][ParNext]_vars

\* ---------------------------------------------- properties of the transform
Rank4Params(m) == {p \in 1..Len(m) : ndim(m[p]) = 4}
OtherParams(m) == {p \in 1..Len(m) : ndim(m[p]) # 4}

Elements(t) == {At(t, idx) : idx \in Indices(t)}

\* same extents and the same element at every index
SameTensor(a, b) ==
    /\ a.shape = b.shape
    /\ \A idx \in Indices(b) : At(a, idx) = At(b, idx)

PairwiseDistinct(shape) ==
    \A i, j \in 1..Len(shape) : i # j => shape[i] # shape[j]

\* C1: Round-trip.  The forward permutation (to_filters_last = TRUE) followed
\* by the inverse permutation (to_filters_last = FALSE) gives back, for every
\* rank-4 parameter, the original extents and the original element at every
\* index.
C1_RoundTrip ==
    applied = <<TRUE, FALSE>> =>
        \A p \in Rank4Params(orig) : SameTensor(model[p], orig[p])

C1_Witness ==
    /\ applied = <<TRUE, FALSE>>
    /\ ndim(orig[1]) = 4
    /\ PairwiseDistinct(orig[1].shape)
    /\ SameTensor(model[1], orig[1])

\* C2: Permutation correctness.  One forward permutation of a rank-4 tensor T
\* with extents (e0,e1,e2,e3) gives F with extents (e2,e3,e1,e0) and
\* F[r,s,c,k] = T[k,c,r,s]; one inverse permutation gives I with extents
\* (e3,e2,e0,e1) and I[k,c,r,s] = T[r,s,c,k].  The elements are the same
\* values, none added and none dropped.
C2_Forward(F, T) ==
    /\ F.shape = <<T.shape[3], T.shape[4], T.shape[2], T.shape[1]>>
    /\ \A idx \in Indices(T) :
          At(F, <<idx[3], idx[4], idx[2], idx[1]>>) = At(T, idx)

C2_Inverse(I, T) ==
    /\ I.shape = <<T.shape[4], T.shape[3], T.shape[1], T.shape[2]>>
    /\ \A idx \in Indices(I) :
          At(I, idx) = At(T, <<idx[3], idx[4], idx[2], idx[1]>>)

C2_SameElements(a, b) ==
    /\ Cardinality(Indices(a)) = Cardinality(Indices(b))
    /\ Elements(a) = Elements(b)
    /\ a.storage = b.storage

C2_PermutationCorrect ==
    /\ applied = <<TRUE>> =>
          \A p \in Rank4Params(orig) :
              C2_Forward(model[p], orig[p]) /\ C2_SameElements(model[p], orig[p])
    /\ applied = <<FALSE>> =>
          \A p \in Rank4Params(orig) :
              C2_Inverse(model[p], orig[p]) /\ C2_SameElements(model[p], orig[p])

C2_Witness ==
    /\ applied = <<TRUE>>
    /\ ndim(orig[1]) = 4
    /\ PairwiseDistinct(orig[1].shape)
    /\ model[1].shape = <<orig[1].shape[3], orig[1].shape[4], orig[1].shape[2], orig[1].shape[1]>>

\* C3: Rank selectivity.  Whatever permute_params calls were made, in either
\* direction, a parameter whose rank is not 4 keeps its extents, its axis
\* order and its elements.
C3_RankSelective ==
    /\ Len(model) = Len(orig)
    /\ \A p \in OtherParams(orig) : model[p] = orig[p]

C3_Witness ==
    /\ Len(applied) = 2
    /\ applied[1] # applied[2]
    /\ ndim(orig[1]) = 5
    /\ Len(orig) = 2
    /\ model = orig

\* C8 as stated: two forward permutations in a row turn extents (e0,e1,e2,e3)
\* into (e1,e0,e2,e3), which differs from the original whenever e0 # e1; for
\* (16,1,3,3) one application gives (3,3,1,16) and two give (1,16,3,3).
C8_TwiceForwardAsStated ==
    /\ applied = <<TRUE, TRUE>> =>
          \A p \in Rank4Params(orig) :
              /\ model[p].shape =
                     <<orig[p].shape[2], orig[p].shape[1], orig[p].shape[3], orig[p].shape[4]>>
              /\ orig[p].shape[1] # orig[p].shape[2] => model[p].shape # orig[p].shape
    /\ (applied = <<TRUE>> /\ orig[1].shape = ExampleShape) =>
          model[1].shape = <<3, 3, 1, 16>>
    /\ (applied = <<TRUE, TRUE>> /\ orig[1].shape = ExampleShape) =>
          model[1].shape = <<1, 16, 3, 3>> /\ model[1].shape # ExampleShape

\* C8 (amended): two forward permutations in a row turn extents (e0,e1,e2,e3)
\* into (e1,e0,e3,e2): both the first and the last pair of axes are swapped.
\* The result differs from the original whenever e0 # e1; for (16,1,3,3) one
\* application gives (3,3,1,16) and two give (1,16,3,3), not (16,1,3,3).
C8_TwiceForward ==
    /\ applied = <<TRUE, TRUE>> =>
          \A p \in Rank4Params(orig) :
              /\ model[p].shape =
                     <<orig[p].shape[2], orig[p].shape[1], orig[p].shape[4], orig[p].shape[3]>>
              /\ orig[p].shape[1] # orig[p].shape[2] => model[p].shape # orig[p].shape
    /\ (applied = <<TRUE>> /\ orig[1].shape = ExampleShape) =>
          model[1].shape = <<3, 3, 1, 16>>
    /\ (applied = <<TRUE, TRUE>> /\ orig[1].shape = ExampleShape) =>
          model[1].shape = <<1, 16, 3, 3>> /\ model[1].shape # ExampleShape

C8_Witness ==
    /\ applied = <<TRUE, TRUE>>
    /\ orig[1].shape = ExampleShape
    /\ model[1].shape = <<1, 16, 3, 3>>

\* ------------------------------------------- properties of DataLayoutPlugin
Constructed == pc \notin {"idle", "new"}

\* C4 as stated: with the probe true, construction applies the forward
\* permutation exactly once to each rank-4 parameter, whatever the direct
\* children are, and leaves the parameters of other ranks untouched; every
\* rank-4 parameter then has extents (e2,e3,e1,e0) of its original extents.
C4_GatingPresent ==
    (Constructed /\ hpu) =>
        /\ \A p \in Rank4Params(orig) :
              /\ model[p] = PermuteParam(orig[p], TRUE)
              /\ model[p].shape =
                     <<orig[p].shape[3], orig[p].shape[4], orig[p].shape[2], orig[p].shape[1]>>
        /\ \A p \in OtherParams(orig) : model[p] = orig[p]

\* C5: Gating with the accelerator absent.  With the probe false, construction
\* makes no permute_params call and every parameter, rank-4 or not, keeps its
\* extents, axis order and elements.
C5_GatingAbsent ==
    (Constructed /\ ~hpu) => (applied = <<>> /\ model = orig)

C5_Witness ==
    /\ pc = "constructed"
    /\ ~hpu
    /\ \E i \in 1..Len(children) : children[i] = "Conv2d"
    /\ \E p \in Rank4Params(orig) : orig[p].shape = <<1, 2, 1, 2>>
    /\ OtherParams(orig) # {}
    /\ model = orig

\* C6 as stated: whenever a checkpoint is written, every rank-4 parameter is
\* in the standard filters-first (K,C,R,S) axis order, the order it had
\* before the plugin was constructed.
C6_CheckpointLayout ==
    \A i \in 1..Len(checkpoints) :
        \A p \in Rank4Params(orig) :
            /\ checkpoints[i][p].shape = orig[p].shape
            /\ checkpoints[i][p].stride = orig[p].stride

\* ------------------------------------------------ properties of HPUStrategy
\* C7: Single-optimizer configuration error.  setup_optimizers raises
\* MisconfigurationException exactly when the superclass setup leaves more
\* than one optimizer configured, nothing when it leaves zero or one, and no
\* training step is executed after the error.
C7_SingleOptimizer ==
    /\ spc \in {"ready", "dispatched", "failed"} =>
          /\ Len(optimizers) > 1 => raised = "MisconfigurationException"
          /\ (Len(optimizers) <= 1 /\ raised # "SuperError") => raised = "none"
    /\ raised # "none" => steps = 0
    /\ steps > 0 => Len(optimizers) <= 1

C7_Witness ==
    /\ spc = "failed"
    /\ Len(optimizers) = 2
    /\ raised = "MisconfigurationException"
    /\ steps = 0

\* --------------------------------------- properties of HPUParallelStrategy
IsSet(name) == name \in DOMAIN environ

\* from setup_environment until teardown, ID is str(local_rank) and, with the
\* hccl backend, HCCL_DISTRIBUTED_BACKEND is "1"
EnvHeldWhileSet ==
    phase = "set" =>
        /\ IsSet("ID") /\ environ["ID"] = Digits[local_rank + 1]
        /\ backend = "hccl" =>
              (IsSet("HCCL_DISTRIBUTED_BACKEND")
                  /\ environ["HCCL_DISTRIBUTED_BACKEND"] = "1")

\* C9 as stated: the variables hold their values from setup_environment until
\* teardown, and after every teardown call that was started, also one whose
\* superclass teardown failed and one made without a setup_environment
\* before it, neither ID nor HCCL_DISTRIBUTED_BACKEND is set.
C9_EnvLifecycle ==
    /\ EnvHeldWhileSet
    /\ phase = "torn" => (~IsSet("ID") /\ ~IsSet("HCCL_DISTRIBUTED_BACKEND"))

\* C10 as stated: a backward or optimizer_step call that returned normally
\* made exactly one flush, after the superclass call, and optimizer_step
\* returned the superclass's result.
C10_FlushAlways ==
    (lastCall.op \in {"backward", "optimizer_step"} /\ ~lastCall.raised) =>
        /\ lastCall.log = <<"super", "mark_step">>
        /\ lastCall.op = "optimizer_step" => lastCall.result = lastCall.superOut

\* C10 (amended): a backward or optimizer_step call that returned normally
\* made exactly one flush, after the superclass call, when torch is at most
\* 1.13.1 (_TORCH_LESSER_EQUAL_1_13_1) and no flush otherwise; a flush never
\* precedes the superclass call, a call whose superclass call raised made no
\* flush, and optimizer_step returned the superclass's result unchanged.
C10_FlushOrdering ==
    lastCall.op \in {"backward", "optimizer_step"} =>
        /\ lastCall.log[1] = "super"
        /\ ~lastCall.raised =>
              lastCall.log = IF torchLE THEN <<"super", "mark_step">> ELSE <<"super">>
        /\ lastCall.raised => lastCall.log = <<"super">>
        /\ (lastCall.op = "optimizer_step" /\ ~lastCall.raised) =>
              lastCall.result = lastCall.superOut

C10_Witness ==
    /\ lastCall.op = "optimizer_step"
    /\ ~lastCall.raised
    /\ torchLE
    /\ lastCall.log = <<"super", "mark_step">>
    /\ lastCall.result = "loss"

====
